---- MODULE Spec2Model ----
(***************************************************************************)
(* Model of the ingest-file command of bsc-devour: verification of the     *)
(* root ingest file (verifyIngestFile and the validators and notation      *)
(* normalizers it calls), the handling of declared sub-files               *)
(* (handleSubFiles) and the hand-off to the upload pipeline                *)
(* (handleIngestFileInput, processIngestFile).                             *)
(*                                                                         *)
(* JavaScript values are records tagged by `t` (what typeof / Array.isArray*)
(* tell apart); numbers are kept by their decimal text.  Error strings are *)
(* records: `kind` is the fixed text of the message, the other fields are  *)
(* the values concatenated into it.                                        *)
(***************************************************************************)
EXTENDS Integers, Sequences, FiniteSets, TLC

VARIABLES
    pc,               \* position of the run
    dsn,              \* the value handed to assureUniformDSN
    dsnFirst,         \* what assureUniformDSN returned for it
    dsnSecond,        \* what it returned for its own result
    rawFile0,         \* the parsed root document as it was read
    rawFile,          \* the parsed root document, written to in place
    verification,     \* return value of verifyIngestFile(rawFile)
    reverification,   \* return value of a second verifyIngestFile(rawFile)
    url,              \* handleIngestFileInput: the path argument
    rangeCheckError,  \* handleSubFiles: what checkIDRangesOfSubFiles returned
    idx,              \* handleSubFiles: the declaration the loop is at (1-based)
    subFile,          \* handleSubFiles: the sub-file document read last
    verifiedSubFiles, \* handleSubFiles: the documents pushed so far
    subFileResult,    \* return value of handleSubFiles
    reads,            \* the readIngestFile calls for sub-files, with what each returned
    assetIdx,         \* processIngestFile: the asset the loop is at (1-based)
    uploads,          \* the calls made on context.db, in order
    ret,              \* return value of handleIngestFileInput
    blob,             \* generateLODs: the blob argument
    sizeThreshold,    \* generateLODs: the sizeThreshold argument, in kilobytes
    typeOverwrite,    \* generateLODs: the typeOverwrite argument
    shrinks,          \* whether every downscale of the call gives a smaller blob
    blobType,         \* generateLODs: the type resolved for the blob
    lodsGenerated,    \* generateLODs: the list built so far
    currentBlob,      \* generateLODs: the blob the loop is at
    detailLevel,      \* generateLODs: the level of the next element
    downscales,       \* the downscaleImage calls, with what each returned
    lodRet,           \* return value of generateLODs
    fetchUrl,         \* fetchBlobOverHTTP: the url argument
    response,         \* what fetch(url) gives
    consulted,        \* the sources of a type fetchBlobOverHTTP turned to, in order
    fetchRet          \* return value of fetchBlobOverHTTP

verifyVars == <<dsn, dsnFirst, dsnSecond, reverification>>
runVars == <<url, rangeCheckError, idx, subFile, verifiedSubFiles, subFileResult,
             reads, assetIdx, uploads, ret>>
lodVars == <<blob, sizeThreshold, typeOverwrite, shrinks, blobType, lodsGenerated,
             currentBlob, detailLevel, downscales, lodRet>>
fetchVars == <<fetchUrl, response, consulted, fetchRet>>
imageVars == <<lodVars, fetchVars>>
vars == <<pc, rawFile0, rawFile, verification, verifyVars, runVars, imageVars>>

---------------------------------------------------------------------------
(* Bounds of the inputs                                                    *)
MaxDsnGroups == 4
MaxAssets == 2
MaxEntries == 2
MaxSubFiles == 2
MaxId == 1
MaxSubAssets == 2

---------------------------------------------------------------------------
(* Values                                                                  *)
Undef == [t |-> "undefined"]
Null == [t |-> "null"]
Str(s) == [t |-> "string", v |-> s]
Num(s) == [t |-> "number", v |-> s]
None == [t |-> "none"]  \* a variable that holds nothing yet

\* x === undefined || x === null
IsAbsent(x) == x.t \in {"undefined", "null"}

Ok(r) == [result |-> r, error |-> Null]
Err(e) == [result |-> Null, error |-> e]

SeqsUpTo(S, lo, hi) == UNION {[1..n -> S] : n \in lo..hi}

\* The element of a set of one element: TheOne({e(x) : x \in {v}}) is
\* LET x == v IN e(x), with v worked out once
TheOne(S) == CHOOSE v \in S : TRUE

---------------------------------------------------------------------------
(* Compact notations.  A compact string is kept as the groups its commas   *)
(* separate, each the tokens its blanks separate:                          *)
(* "host port, username password, dbName, sslMode".                        *)
IsNumeric(tok) == tok \in {"5432", "90"}

CompactDSN(groups) == [t |-> "string", groups |-> groups]

readCompactDSNNotationRaw(s) ==
    LET g == s.groups IN
    IF Len(g) \notin {3, 4}
    THEN Err([kind |-> "Invalid compact DSN notation: field count"])
    ELSE IF \/ Len(g[1]) # 2 \/ Len(g[2]) # 2 \/ Len(g[3]) # 1
            \/ (Len(g) = 4 /\ Len(g[4]) # 1)
    THEN Err([kind |-> "Invalid compact DSN notation: field format"])
    ELSE IF ~IsNumeric(g[1][2])
    THEN Err([kind |-> "Invalid compact DSN notation: port"])
    ELSE Ok([t |-> "object",
             host |-> Str(g[1][1]), port |-> Num(g[1][2]),
             username |-> Str(g[2][1]), password |-> Str(g[2][2]),
             dbName |-> Str(g[3][1]),
             sslMode |-> IF Len(g) = 4 THEN Str(g[4][1]) ELSE Str("disable")])

\* conformsToType(dsn, DBDSN_TYPEDECL): null, or the mismatch
conformsToDBDSN(d) ==
    IF /\ d.host.t = "string" /\ d.port.t = "number"
       /\ d.username.t = "string" /\ d.password.t = "string"
       /\ d.dbName.t = "string"
       /\ d.sslMode.t \in {"string", "undefined", "null"}
    THEN Null
    ELSE [kind |-> "DBDSN type mismatch"]

\* As assureUniformDSN, without the default of sslMode.
assureUniformDSN_NoDefault(d) ==
    IF d.t = "string"
    THEN LET compactNotationRes == readCompactDSNNotationRaw(d) IN
         IF compactNotationRes.error # Null
         THEN Err(compactNotationRes.error) @@ [dsn |-> d]
         ELSE Ok(compactNotationRes.result) @@ [dsn |-> d]
    ELSE IF d.t = "object"
    THEN LET typeError == conformsToDBDSN(d) IN
         IF typeError # Null
         THEN Err([kind |-> "DSN object does not conform to expected type:",
                   cause |-> typeError]) @@ [dsn |-> d]
         ELSE Ok(d) @@ [dsn |-> d]
    ELSE Err([kind |-> "DSN field is not compact CLI notation or an object."])
         @@ [dsn |-> d]

\* What the call returns, and `dsn`: the object passed in, as the call left it.
assureUniformDSN(d) ==
    IF d.t = "string"
    THEN LET compactNotationRes == readCompactDSNNotationRaw(d) IN
         IF compactNotationRes.error # Null
         THEN Err(compactNotationRes.error) @@ [dsn |-> d]
         ELSE Ok(compactNotationRes.result) @@ [dsn |-> d]
    ELSE IF d.t = "object"
    THEN LET typeError == conformsToDBDSN(d) IN
         IF typeError # Null
         THEN Err([kind |-> "DSN object does not conform to expected type:",
                   cause |-> typeError]) @@ [dsn |-> d]
         ELSE LET defaulted == IF IsAbsent(d.sslMode)
                               THEN [d EXCEPT !.sslMode = Str("disable")]
                               ELSE d
              IN Ok(defaulted) @@ [dsn |-> defaulted]
    ELSE Err([kind |-> "DSN field is not compact CLI notation or an object."])
         @@ [dsn |-> d]

---------------------------------------------------------------------------
(* Transforms: compact notation "name amount", or an object.               *)
CompactTransform(toks) == [t |-> "string", toks |-> toks]

readCompactTransformNotationRaw(s) ==
    IF Len(s.toks) # 2
    THEN Err([kind |-> "Invalid compact transform notation: field count"])
    ELSE IF ~IsNumeric(s.toks[2])
    THEN Err([kind |-> "Invalid compact transform notation: amount"])
    ELSE Ok([t |-> "object", name |-> Str(s.toks[1]), amount |-> Num(s.toks[2])])

\* conformsToType(maybeTransform, TRANSFORM_DTO_TYPEDECL)
conformsToTransformDTO(x) ==
    IF x.name.t = "string" /\ x.amount.t = "number"
    THEN Null
    ELSE [kind |-> "TransformDTO type mismatch"]

\* As assureUniformTransform, without the branch that accepts an object.
assureUniformTransform_StringOnly(maybeTransform) ==
    IF maybeTransform.t = "string"
    THEN LET compactNotationRes == readCompactTransformNotationRaw(maybeTransform) IN
         IF compactNotationRes.error # Null
         THEN Err(compactNotationRes.error)
         ELSE Ok(compactNotationRes.result)
    ELSE Err([kind |-> "Transform field is not compact CLI notation (string) or an object."])

assureUniformTransform(maybeTransform) ==
    IF maybeTransform.t = "string"
    THEN LET compactNotationRes == readCompactTransformNotationRaw(maybeTransform) IN
         IF compactNotationRes.error # Null
         THEN Err(compactNotationRes.error)
         ELSE Ok(compactNotationRes.result)
    ELSE IF maybeTransform.t = "object"
    THEN LET typeError == conformsToTransformDTO(maybeTransform) IN
         IF typeError # Null
         THEN Err([kind |-> "Transform field does not conform to type: ",
                   cause |-> typeError])
         ELSE Ok(maybeTransform)
    ELSE Err([kind |-> "Transform field is not compact CLI notation (string) or an object."])

---------------------------------------------------------------------------
(* Asset entries.  `topOK`, `fieldOK` and an entry's `shapeOK` are the     *)
(* type checker's verdicts on the asset, on its single / collection field  *)
(* and on a collection entry, against the type declarations of types.ts.   *)

\* The loop of validateCollectionAssetEntry from entry i (1-based here,
\* i - 1 in the messages): the error, and the entries as the loop left them.
RECURSIVE collectionEntriesFrom(_, _, _)
collectionEntriesFrom(entries, i, entryNum) ==
    IF i > Len(entries)
    THEN [error |-> Null, entries |-> entries]
    ELSE LET source == entries[i] IN
         IF ~source.shapeOK
         THEN [error |-> [kind |-> "Type error in source nr: _ in collection asset nr: _",
                          source |-> i - 1, asset |-> entryNum],
               entries |-> entries]
         ELSE TheOne({
                  IF uniformTransformAttempt.error # Null
                  THEN [error |-> uniformTransformAttempt.error, entries |-> entries]
                  ELSE collectionEntriesFrom(
                           [entries EXCEPT ![i].transform = uniformTransformAttempt.result],
                           i + 1, entryNum) :
                  uniformTransformAttempt \in {assureUniformTransform(source.transform)}})

\* The error (or Null), and the asset as the call left it.
validateCollectionAssetEntry(asset, entryNum) ==
    IF ~asset.topOK
    THEN [error |-> [kind |-> "Type error in collection asset nr _", asset |-> entryNum],
          asset |-> asset]
    ELSE IF ~asset.fieldOK
    THEN [error |-> [kind |-> "Type error in collection field on collection asset nr _",
                     asset |-> entryNum],
          asset |-> asset]
    ELSE TheOne({[error |-> loop.error, asset |-> [asset EXCEPT !.entries = loop.entries]] :
                     loop \in {collectionEntriesFrom(asset.entries, 1, entryNum)}})

validateSingleAssetEntry(asset, entryNum) ==
    IF ~asset.topOK
    THEN [kind |-> "Type error in single asset nr _", asset |-> entryNum]
    ELSE IF ~asset.fieldOK
    THEN [kind |-> "Type error in single field of single asset nr _", asset |-> entryNum]
    ELSE Null

\* As verifyAsset, an asset of unknown type passing unchecked.
verifyAsset_SkipUnknown(asset, i) ==
    IF IsAbsent(asset.type)
    THEN [error |-> [kind |-> "No type field found in asset nr:", asset |-> i - 1],
          asset |-> asset]
    ELSE IF IsAbsent(asset.useCase)
    THEN [error |-> [kind |-> "No useCase field found in asset nr:", asset |-> i - 1],
          asset |-> asset]
    ELSE IF asset.type = Str("single")
    THEN [error |-> validateSingleAssetEntry(asset, i - 1), asset |-> asset]
    ELSE IF asset.type = Str("collection")
    THEN validateCollectionAssetEntry(asset, i - 1)
    ELSE [error |-> Null, asset |-> asset]

\* One turn of the asset loop of verifyIngestFile on assets[i] (1-based;
\* i - 1 in the messages): the error, and the asset as the turn left it.
verifyAsset(asset, i) ==
    IF IsAbsent(asset.type)
    THEN [error |-> [kind |-> "No type field found in asset nr:", asset |-> i - 1],
          asset |-> asset]
    ELSE IF IsAbsent(asset.useCase)
    THEN [error |-> [kind |-> "No useCase field found in asset nr:", asset |-> i - 1],
          asset |-> asset]
    ELSE IF asset.type = Str("single")
    THEN [error |-> validateSingleAssetEntry(asset, i - 1), asset |-> asset]
    ELSE IF asset.type = Str("collection")
    THEN validateCollectionAssetEntry(asset, i - 1)
    ELSE [error |-> [kind |-> "Unknown asset type in asset nr:", asset |-> i - 1],
          asset |-> asset]

\* The asset loop from assets[i]: the error of the first turn that fails
\* (the loop returns there), and the assets as the loop left them.
RECURSIVE assetsFrom(_, _)
assetsFrom(assets, i) ==
    IF i > Len(assets)
    THEN [error |-> Null, assets |-> assets]
    ELSE TheOne({
             IF turn.error # Null
             THEN [error |-> turn.error, assets |-> [assets EXCEPT ![i] = turn.asset]]
             ELSE assetsFrom([assets EXCEPT ![i] = turn.asset], i + 1) :
             turn \in {verifyAsset(assets[i], i)}})

\* As verifyAssetsField, an absent assets field counting as no assets.
verifyAssetsField_NoPresenceCheck(f) ==
    IF IsAbsent(f.assets)
    THEN Ok(f) @@ [rawFile |-> f]
    ELSE IF f.assets.t # "array" \/ Len(f.assets.items) = 0
    THEN Err([kind |-> "Assets field in ingest file is not an array or is an empty array."])
         @@ [rawFile |-> f]
    ELSE TheOne({
             IF loop.error # Null
             THEN Err(loop.error) @@ [rawFile |-> [f EXCEPT !.assets.items = loop.assets]]
             ELSE Ok([f EXCEPT !.assets.items = loop.assets])
                  @@ [rawFile |-> [f EXCEPT !.assets.items = loop.assets]] :
             loop \in {assetsFrom(f.assets.items, 1)}})

\* verifyIngestFile from the check of the assets field on: what the call
\* returns, and `rawFile`: the document as the call left it.
verifyAssetsField(f) ==
    IF IsAbsent(f.assets)
    THEN Err([kind |-> "No assets field and corresponding object found in ingest file."])
         @@ [rawFile |-> f]
    ELSE IF f.assets.t # "array" \/ Len(f.assets.items) = 0
    THEN Err([kind |-> "Assets field in ingest file is not an array or is an empty array."])
         @@ [rawFile |-> f]
    ELSE TheOne({
             IF loop.error # Null
             THEN Err(loop.error) @@ [rawFile |-> [f EXCEPT !.assets.items = loop.assets]]
             ELSE Ok([f EXCEPT !.assets.items = loop.assets])
                  @@ [rawFile |-> [f EXCEPT !.assets.items = loop.assets]] :
             loop \in {assetsFrom(f.assets.items, 1)}})

\* What the call returns, and `rawFile`: the document as the call left it.
verifyIngestFile(f) ==
    IF IsAbsent(f.settings)
    THEN Err([kind |-> "No settings field and corresponding object found in ingest file."])
         @@ [rawFile |-> f]
    ELSE IF IsAbsent(f.settings.dsn)
    THEN Err([kind |-> "No dsn field found in ingest file under settings."])
         @@ [rawFile |-> f]
    ELSE TheOne({
             IF uniformDSNAttempt.error # Null
             THEN Err(uniformDSNAttempt.error)
                  @@ [rawFile |-> [f EXCEPT !.settings.dsn = uniformDSNAttempt.dsn]]
             ELSE verifyAssetsField([f EXCEPT !.settings.dsn = uniformDSNAttempt.result]) :
             uniformDSNAttempt \in {assureUniformDSN(f.settings.dsn)}})

---------------------------------------------------------------------------
(* Inputs                                                                  *)
DsnGroups == {<<"h", "5432">>, <<"u", "p">>, <<"db">>, <<"require">>, <<"disable">>}

DsnStrings == {CompactDSN(g) : g \in SeqsUpTo(DsnGroups, 2, MaxDsnGroups)}

DsnObjects ==
    [t : {"object"}, host : {Str("h"), Undef}, port : {Num("5432"), Str("5432")},
     username : {Str("u")}, password : {Str("p")}, dbName : {Str("db")},
     sslMode : {Undef, Str("disable"), Str("require")}]

DsnInputs == DsnStrings \cup DsnObjects \cup {Num("42")}

\* The DSN of a valid object without sslMode, and the compact strings
\* "h 5432, u p, db" and "h 5432, u p, db, require"
DsnObjectNoSsl ==
    [t |-> "object", host |-> Str("h"), port |-> Num("5432"), username |-> Str("u"),
     password |-> Str("p"), dbName |-> Str("db"), sslMode |-> Undef]
DsnCompactNoSsl == CompactDSN(<<<<"h", "5432">>, <<"u", "p">>, <<"db">>>>)
DsnCompactSsl == CompactDSN(<<<<"h", "5432">>, <<"u", "p">>, <<"db">>, <<"require">>>>)

VerifyDsns ==
    {Undef, Num("42"), DsnCompactNoSsl, DsnCompactSsl,
     CompactDSN(<<<<"h", "5432">>, <<"u", "p">>>>),
     DsnObjectNoSsl, [DsnObjectNoSsl EXCEPT !.sslMode = Str("require")],
     [DsnObjectNoSsl EXCEPT !.host = Undef]}

Settings(d, subFiles) == [t |-> "object", dsn |-> d, subFiles |-> subFiles]

SettingsValues == {Undef} \cup {Settings(d, Undef) : d \in VerifyDsns}

TransformObject == [t |-> "object", name |-> Str("rotate"), amount |-> Num("90")]

CollectionEntries ==
    {[shapeOK |-> FALSE, transform |-> CompactTransform(<<"rotate", "90">>)],
     [shapeOK |-> TRUE, transform |-> CompactTransform(<<"rotate", "90">>)],
     [shapeOK |-> TRUE, transform |-> CompactTransform(<<"rotate">>)]}

SingleAsset(topOK, fieldOK, id) ==
    [type |-> Str("single"), useCase |-> Str("icon"), topOK |-> topOK,
     fieldOK |-> fieldOK, entries |-> <<>>, id |-> id]

CollectionAsset(topOK, fieldOK, entries) ==
    [type |-> Str("collection"), useCase |-> Str("icon"), topOK |-> topOK,
     fieldOK |-> fieldOK, entries |-> entries, id |-> 0]

AssetEntries ==
    {SingleAsset(TRUE, TRUE, 0), SingleAsset(FALSE, TRUE, 0), SingleAsset(TRUE, FALSE, 0),
     CollectionAsset(FALSE, TRUE, <<>>), CollectionAsset(TRUE, FALSE, <<>>),
     CollectionAsset(TRUE, TRUE, <<[shapeOK |-> TRUE, transform |-> TransformObject]>>),
     CollectionAsset(TRUE, TRUE,
         <<[shapeOK |-> TRUE, transform |-> [TransformObject EXCEPT !.amount = Undef]]>>),
     CollectionAsset(TRUE, TRUE, <<[shapeOK |-> TRUE, transform |-> Num("7")]>>),
     [SingleAsset(TRUE, TRUE, 0) EXCEPT !.type = Undef],
     [SingleAsset(TRUE, TRUE, 0) EXCEPT !.useCase = Undef],
     [SingleAsset(TRUE, TRUE, 0) EXCEPT !.type = Str("video")],
     [SingleAsset(TRUE, TRUE, 0) EXCEPT !.type = Str("video"), !.useCase = Undef]}
    \cup {CollectionAsset(TRUE, TRUE, e) : e \in SeqsUpTo(CollectionEntries, 0, MaxEntries)}

AssetsValues ==
    {Undef, Num("0")}
    \cup {[t |-> "array", items |-> a] : a \in SeqsUpTo(AssetEntries, 0, MaxAssets)}

\* Every settings value with a few assets values, and every assets value
\* with the two settings whose DSN normalizes.
RawFiles ==
    [settings : SettingsValues,
     assets : {Undef, Num("0"), [t |-> "array", items |-> <<SingleAsset(TRUE, TRUE, 0)>>]}]
    \cup [settings : {Settings(d, Undef) : d \in {DsnCompactNoSsl, DsnObjectNoSsl}},
          assets : AssetsValues]

---------------------------------------------------------------------------
(* SpecVerify: the verification layer on its inputs.  assureUniformDSN on  *)
(* every DSN input and then on its own result; verifyIngestFile on every   *)
(* raw file and then on the document it verified.                          *)
\* No run of handleIngestFileInput
\* No call of generateLODs or fetchBlobOverHTTP
NoImageWork ==
    /\ blob = None /\ sizeThreshold = 0 /\ typeOverwrite = None /\ shrinks = FALSE
    /\ blobType = None /\ lodsGenerated = <<>> /\ currentBlob = None
    /\ detailLevel = 0 /\ downscales = <<>> /\ lodRet = None
    /\ fetchUrl = None /\ response = None /\ consulted = <<>> /\ fetchRet = None

NoRun ==
    /\ url = None /\ rangeCheckError = None /\ idx = 0 /\ subFile = None
    /\ verifiedSubFiles = <<>> /\ subFileResult = None /\ reads = <<>>
    /\ assetIdx = 0 /\ uploads = <<>> /\ ret = None

InitDSN ==
    /\ pc = "dsn"
    /\ dsn \in DsnInputs
    /\ dsnFirst = None /\ dsnSecond = None
    /\ rawFile0 = None /\ rawFile = None
    /\ verification = None /\ reverification = None
    /\ NoRun
    /\ NoImageWork

NormalizeDSN ==
    /\ pc = "dsn"
    /\ dsnFirst' = assureUniformDSN(dsn)
    /\ pc' = "dsnNormalized"
    /\ UNCHANGED <<dsn, dsnSecond, rawFile0, rawFile, verification, reverification, runVars, imageVars>>

RenormalizeDSN ==
    /\ pc = "dsnNormalized"
    /\ dsnFirst.error = Null
    /\ dsnSecond' = assureUniformDSN(dsnFirst.result)
    /\ pc' = "dsnRenormalized"
    /\ UNCHANGED <<dsn, dsnFirst, rawFile0, rawFile, verification, reverification, runVars, imageVars>>

InitVerifyFile ==
    /\ pc = "verify"
    /\ rawFile0 \in RawFiles
    /\ rawFile = rawFile0
    /\ verification = None /\ reverification = None
    /\ dsn = None /\ dsnFirst = None /\ dsnSecond = None
    /\ NoRun
    /\ NoImageWork

Verify ==
    /\ pc = "verify"
    /\ \E r \in {verifyIngestFile(rawFile)} :
           /\ verification' = [result |-> r.result, error |-> r.error]
           /\ rawFile' = r.rawFile
    /\ pc' = "verified"
    /\ UNCHANGED <<dsn, dsnFirst, dsnSecond, rawFile0, reverification, runVars, imageVars>>

Reverify ==
    /\ pc = "verified"
    /\ verification.error = Null
    /\ \E r \in {verifyIngestFile(rawFile)} :
           /\ reverification' = [result |-> r.result, error |-> r.error]
           /\ rawFile' = r.rawFile
    /\ pc' = "reverified"
    /\ UNCHANGED <<dsn, dsnFirst, dsnSecond, rawFile0, verification, runVars, imageVars>>

InitVerify == InitDSN \/ InitVerifyFile

NextVerify == NormalizeDSN \/ RenormalizeDSN \/ Verify \/ Reverify

SpecVerify == InitVerify /\ [][NextVerify]_vars

---------------------------------------------------------------------------
(* Properties of the verification layer (checked under SpecVerify)         *)

\* What is valid, said without the validators.
TransformValid(x) ==
    \/ x.t = "string" /\ Len(x.toks) = 2 /\ IsNumeric(x.toks[2])
    \/ x.t = "object" /\ x.name.t = "string" /\ x.amount.t = "number"

EntryValid(e) == e.shapeOK /\ TransformValid(e.transform)

KnownTypes == {Str("single"), Str("collection")}

AssetValid(a) ==
    /\ ~IsAbsent(a.type) /\ ~IsAbsent(a.useCase)
    /\ a.type \in KnownTypes
    /\ a.topOK /\ a.fieldOK
    /\ a.type = Str("collection") => \A j \in 1..Len(a.entries) : EntryValid(a.entries[j])

\* The first element of s that is not P, 0 when all are
FirstNot(P(_), s) ==
    IF \A i \in 1..Len(s) : P(s[i]) THEN 0
    ELSE CHOOSE i \in 1..Len(s) : ~P(s[i]) /\ \A j \in 1..(i - 1) : P(s[j])

\* The raw file passes the checks of settings and of the DSN
SettingsPass(f) ==
    /\ ~IsAbsent(f.settings) /\ ~IsAbsent(f.settings.dsn)
    /\ \/ f.settings.dsn.t = "object" /\ conformsToDBDSN(f.settings.dsn) = Null
       \/ f.settings.dsn.t = "string"
          /\ readCompactDSNNotationRaw(f.settings.dsn).error = Null

\* The raw file reaches the asset loop
ReachesAssets(f) ==
    SettingsPass(f) /\ f.assets.t = "array" /\ Len(f.assets.items) > 0

MissingSettings == [kind |-> "No settings field and corresponding object found in ingest file."]
MissingAssets == [kind |-> "No assets field and corresponding object found in ingest file."]

\* C1: a raw file without settings or without assets is refused: the call
\* returns an error and a null result, never a document.  Without settings
\* the error is the missing-settings error; without assets, when the
\* settings pass their checks, it is the missing-assets error.
C1_MissingSettingsOrAssetsFails ==
    (pc = "verified" /\ (IsAbsent(rawFile0.settings) \/ IsAbsent(rawFile0.assets)))
    => /\ verification.result = Null
       /\ verification.error # Null
       /\ IsAbsent(rawFile0.settings) => verification.error = MissingSettings
       /\ (SettingsPass(rawFile0) /\ IsAbsent(rawFile0.assets))
              => verification.error = MissingAssets

C1_Witness ==
    /\ pc = "verified"
    /\ ~IsAbsent(rawFile0.settings) /\ IsAbsent(rawFile0.assets)
    /\ verification.result = Null /\ verification.error = MissingAssets

UnknownType(i) == [kind |-> "Unknown asset type in asset nr:", asset |-> i - 1]

\* C2 as stated: the first asset that is not valid, when it has a type and
\* the type is any value other than "single" and "collection", is refused
\* with the unknown-type error naming its index.
C2_UnknownTypeAlwaysReported ==
    (pc = "verified" /\ ReachesAssets(rawFile0))
    => LET items == rawFile0.assets.items
           k == FirstNot(AssetValid, items)
       IN (k # 0 /\ ~IsAbsent(items[k].type) /\ items[k].type \notin KnownTypes)
          => verification = Err(UnknownType(k))

\* C2, amended: the first asset that is not valid, when its type is not
\* "single" or "collection", is refused with a null result and an error
\* naming its index: the unknown-type error when its type and useCase are
\* both present, the no-type error when its type is absent, the no-useCase
\* error when its type is present and its useCase is absent.
C2_UnknownTypeRefused ==
    (pc = "verified" /\ ReachesAssets(rawFile0))
    => LET items == rawFile0.assets.items
           k == FirstNot(AssetValid, items)
       IN (k # 0 /\ items[k].type \notin KnownTypes)
          => verification =
                 IF IsAbsent(items[k].type)
                 THEN Err([kind |-> "No type field found in asset nr:", asset |-> k - 1])
                 ELSE IF IsAbsent(items[k].useCase)
                 THEN Err([kind |-> "No useCase field found in asset nr:", asset |-> k - 1])
                 ELSE Err(UnknownType(k))

C2_Witness ==
    /\ pc = "verified"
    /\ ReachesAssets(rawFile0)
    /\ Len(rawFile0.assets.items) = 2
    /\ AssetValid(rawFile0.assets.items[1])
    /\ rawFile0.assets.items[2].type = Str("video")
    /\ verification = Err(UnknownType(2))

\* The sslMode the input carries: the field of an object, the fourth group
\* of a compact string
SuppliedSslMode(d) ==
    IF d.t = "object" THEN d.sslMode
    ELSE IF d.t = "string" /\ Len(d.groups) >= 4 /\ Len(d.groups[4]) = 1
    THEN Str(d.groups[4][1])
    ELSE Undef

\* C7: when assureUniformDSN succeeds, the DSN it returns has an sslMode:
\* "disable" when the input carried none, the input's own otherwise.
C7_SslModePresent ==
    (pc \in {"dsnNormalized", "dsnRenormalized"} /\ dsnFirst.error = Null)
    => /\ ~IsAbsent(dsnFirst.result.sslMode)
       /\ dsnFirst.result.sslMode =
              IF IsAbsent(SuppliedSslMode(dsn)) THEN Str("disable")
              ELSE SuppliedSslMode(dsn)

C7_Witness ==
    /\ pc = "dsnNormalized"
    /\ dsn.t = "object" /\ IsAbsent(dsn.sslMode)
    /\ dsnFirst.error = Null
    /\ dsnFirst.result.sslMode = Str("disable")

\* C8: verifying a verified document again succeeds and changes nothing in
\* it, and normalizing a DSN that assureUniformDSN returned gives it back.
C8_VerificationIdempotent ==
    /\ pc = "reverified"
       => /\ reverification.error = Null
          /\ reverification.result = verification.result
          /\ rawFile = verification.result
    /\ pc = "dsnRenormalized"
       => /\ dsnSecond.error = Null
          /\ dsnSecond.result = dsnFirst.result

C8_Witness ==
    /\ pc = "reverified"
    /\ rawFile0.settings.dsn.t = "string"
    /\ rawFile.settings.dsn.t = "object"
    /\ \E i \in 1..Len(rawFile0.assets.items) :
           /\ rawFile0.assets.items[i].type = Str("collection")
           /\ Len(rawFile0.assets.items[i].entries) = 2
           /\ rawFile0.assets.items[i].entries[2].transform.t = "string"
           /\ rawFile.assets.items[i].entries[2].transform.t = "object"

\* C9: when the first asset that is not valid is a collection refused for
\* one of its entries, the error names the index of the first entry that
\* is not valid and the index of the asset.
C9_EntryErrorNamesBoth ==
    (pc = "verified" /\ ReachesAssets(rawFile0))
    => LET items == rawFile0.assets.items
           k == FirstNot(AssetValid, items)
       IN (/\ k # 0
           /\ items[k].type = Str("collection") /\ ~IsAbsent(items[k].useCase)
           /\ items[k].topOK /\ items[k].fieldOK)
          => LET j == FirstNot(EntryValid, items[k].entries) IN
             /\ verification.result = Null
             /\ DOMAIN verification.error = {"kind", "source", "asset"}
             /\ verification.error.source = j - 1
             /\ verification.error.asset = k - 1

\* C10: a raw file with settings and without assets is refused with the
\* missing-assets error whatever its DSN, and its DSN is left as it was.
C10_AssetsRequiredBeforeDSN ==
    (pc = "verified" /\ ~IsAbsent(rawFile0.settings) /\ IsAbsent(rawFile0.assets))
    => /\ verification = Err(MissingAssets)
       /\ rawFile = rawFile0

---------------------------------------------------------------------------
(* Sub-files: the declarations of settings.subFiles and the documents they *)
(* name.                                                                   *)
Paths == {"a.json", "b.json"}

Declarations == [path : Paths, start : 0..MaxId, end : 0..MaxId]

\* Two inclusive ranges with an identifier in common
Overlap(a, b) == a.start <= b.end /\ b.start <= a.end

\* d put into a sequence sorted by start, behind every declaration that
\* starts no later (the sort is stable)
RECURSIVE insertByStart(_, _)
insertByStart(sorted, d) ==
    IF sorted = <<>> THEN <<d>>
    ELSE IF Head(sorted).start <= d.start
    THEN <<Head(sorted)>> \o insertByStart(Tail(sorted), d)
    ELSE <<d>> \o sorted

RECURSIVE sortByStart(_)
sortByStart(s) ==
    IF s = <<>> THEN <<>>
    ELSE insertByStart(sortByStart(SubSeq(s, 1, Len(s) - 1)), s[Len(s)])

\* As checkIDRangesOfSubFiles, scanning the declarations as declared, unsorted.
checkIDRangesOfSubFiles_Unsorted(subFiles) ==
    IF \E i \in 1..Len(subFiles) : subFiles[i].start > subFiles[i].end
    THEN LET i == CHOOSE i \in 1..Len(subFiles) :
                      /\ subFiles[i].start > subFiles[i].end
                      /\ \A j \in 1..(i - 1) : subFiles[j].start <= subFiles[j].end
         IN [kind |-> "Malformed id range in sub-file: ", declaration |-> subFiles[i]]
    ELSE LET Clash(i) == subFiles[i].end >= subFiles[i + 1].start
         IN IF \E i \in 1..(Len(subFiles) - 1) : Clash(i)
            THEN LET i == CHOOSE i \in 1..(Len(subFiles) - 1) :
                              Clash(i) /\ \A j \in 1..(i - 1) : ~Clash(j)
                 IN [kind |-> "Overlapping id ranges in sub-files: ",
                     current |-> subFiles[i], next |-> subFiles[i + 1]]
            ELSE Null

\* null, or the error of the first declaration with start > end, or of the
\* first adjacent pair, sorted by start, with current.end >= next.start
checkIDRangesOfSubFiles(subFiles) ==
    IF \E i \in 1..Len(subFiles) : subFiles[i].start > subFiles[i].end
    THEN LET i == CHOOSE i \in 1..Len(subFiles) :
                      /\ subFiles[i].start > subFiles[i].end
                      /\ \A j \in 1..(i - 1) : subFiles[j].start <= subFiles[j].end
         IN [kind |-> "Malformed id range in sub-file: ", declaration |-> subFiles[i]]
    ELSE LET sorted == sortByStart(subFiles)
             Clash(i) == sorted[i].end >= sorted[i + 1].start
         IN IF \E i \in 1..(Len(sorted) - 1) : Clash(i)
            THEN LET i == CHOOSE i \in 1..(Len(sorted) - 1) :
                              Clash(i) /\ \A j \in 1..(i - 1) : ~Clash(j)
                 IN [kind |-> "Overlapping id ranges in sub-files: ",
                     current |-> sorted[i], next |-> sorted[i + 1]]
            ELSE Null

\* The validation of a sub-file's assets: the error (or Null), and
\* `rawFile`: the document as the call left it
verifyIngestFileAssets(f) ==
    TheOne({[error |-> r.error, rawFile |-> r.rawFile] : r \in {verifyAssetsField(f)}})

\* null, or the error of the first asset whose id is outside the declared
\* range
verifySubFileIDAssignments(declaration, f) ==
    LET assets == f.assets.items
        Outside(i) == assets[i].id < declaration.start \/ assets[i].id > declaration.end
    IN IF \E i \in 1..Len(assets) : Outside(i)
       THEN LET i == CHOOSE i \in 1..Len(assets) :
                         Outside(i) /\ \A j \in 1..(i - 1) : ~Outside(j)
            IN [kind |-> "Asset id outside the id range of sub-file: ",
                id |-> assets[i].id, declaration |-> declaration]
       ELSE Null

\* A file as Bun.file(url) finds it
FileMissing == [exists |-> FALSE, parses |-> FALSE, json |-> Undef]
FileGarbled == [exists |-> TRUE, parses |-> FALSE, json |-> Undef]
FileOf(json) == [exists |-> TRUE, parses |-> TRUE, json |-> json]

readIngestFile(u, file) ==
    IF ~file.exists
    THEN Err([kind |-> "File: _ does not exist. WD: ", url |-> u])
    ELSE IF ~file.parses
    THEN Err([kind |-> "Failed to parse IngestFile: ", cause |-> "SyntaxError"])
    ELSE Ok(file.json)

---------------------------------------------------------------------------
(* Inputs of a run                                                         *)
ArrayOf(items) == [t |-> "array", items |-> items]

\* An args element: whether it starts with "path=", and what readUrlArg
\* makes of it
Args ==
    {[isPath |-> FALSE, url |-> "", error |-> Null],
     [isPath |-> TRUE, url |-> "root.json", error |-> Null],
     [isPath |-> TRUE, url |-> "", error |-> [kind |-> "Invalid url argument"]]}

ArgLists == SeqsUpTo(Args, 0, 2)

GoodAssets ==
    ArrayOf(<<SingleAsset(TRUE, TRUE, 0),
              CollectionAsset(TRUE, TRUE,
                  <<[shapeOK |-> TRUE, transform |-> CompactTransform(<<"rotate", "90">>)]>>)>>)

RootFiles ==
    {[settings |-> Undef, assets |-> GoodAssets],
     [settings |-> Settings(Num("42"), Undef), assets |-> GoodAssets],
     [settings |-> Settings(DsnCompactNoSsl, Undef), assets |-> Undef],
     [settings |-> Settings(DsnCompactNoSsl, Undef), assets |-> GoodAssets],
     [settings |-> Settings(DsnObjectNoSsl, Undef),
      assets |-> ArrayOf(<<[SingleAsset(TRUE, TRUE, 0) EXCEPT !.type = Str("video")]>>)]}
    \cup {[settings |-> Settings(DsnCompactNoSsl, ArrayOf(d)), assets |-> GoodAssets] :
              d \in SeqsUpTo(Declarations, 0, MaxSubFiles)}

SubAssets == {SingleAsset(TRUE, TRUE, id) : id \in 0..MaxId} \cup {SingleAsset(TRUE, FALSE, 0)}

SubFileDocuments ==
    {[assets |-> Undef]}
    \cup {[assets |-> ArrayOf(a)] : a \in SeqsUpTo(SubAssets, 1, MaxSubAssets)}

SubFileFiles == {FileMissing, FileGarbled} \cup {FileOf(d) : d \in SubFileDocuments}

RootFileFiles == {FileMissing, FileGarbled} \cup {FileOf(d) : d \in RootFiles}

---------------------------------------------------------------------------
(* Spec: a run of handleIngestFileInput.                                   *)
Init ==
    /\ pc = "args"
    /\ dsn = None /\ dsnFirst = None /\ dsnSecond = None /\ reverification = None
    /\ rawFile0 = None /\ rawFile = None /\ verification = None
    /\ NoRun
    /\ NoImageWork

\* The loop over args: the url of the last path argument, or the error of
\* the first one readUrlArg refuses
RECURSIVE readArgs(_, _)
readArgs(args, u) ==
    IF args = <<>> THEN [url |-> u, error |-> Null]
    ELSE IF Head(args).isPath
    THEN IF Head(args).error # Null
         THEN [url |-> u, error |-> Head(args).error]
         ELSE readArgs(Tail(args), Head(args).url)
    ELSE readArgs(Tail(args), u)

\* handleIngestFileInput returns
Return(r) == ret' = r /\ pc' = "done"

ParseArgs ==
    /\ pc = "args"
    /\ \E args \in ArgLists :
           \E r \in {readArgs(args, "")} :
           IF r.error # Null
           THEN Return(Err(r.error)) /\ UNCHANGED url
           ELSE IF r.url = ""
           THEN Return(Err([kind |-> "No path argument provided"])) /\ UNCHANGED url
           ELSE url' = r.url /\ pc' = "readRoot" /\ UNCHANGED ret
    /\ UNCHANGED <<rawFile0, rawFile, verification, verifyVars, imageVars, rangeCheckError, idx,
                   subFile, verifiedSubFiles, subFileResult, reads, assetIdx, uploads>>

ReadRoot ==
    /\ pc = "readRoot"
    /\ \E file \in RootFileFiles :
           \E r \in {readIngestFile(url, file)} :
           IF r.error # Null
           THEN Return(Err(r.error)) /\ UNCHANGED <<rawFile0, rawFile>>
           ELSE /\ rawFile0' = r.result /\ rawFile' = r.result
                /\ pc' = "verifyRoot" /\ UNCHANGED ret
    /\ UNCHANGED <<verification, verifyVars, imageVars, url, rangeCheckError, idx, subFile,
                   verifiedSubFiles, subFileResult, reads, assetIdx, uploads>>

VerifyRoot ==
    /\ pc = "verifyRoot"
    /\ \E r \in {verifyIngestFile(rawFile)} :
           /\ verification' = [result |-> r.result, error |-> r.error]
           /\ rawFile' = r.rawFile
           /\ IF r.error # Null
              THEN Return(Err(r.error))
              ELSE pc' = "subFiles" /\ UNCHANGED ret
    /\ UNCHANGED <<rawFile0, verifyVars, imageVars, url, rangeCheckError, idx, subFile,
                   verifiedSubFiles, subFileResult, reads, assetIdx, uploads>>

\* handleSubFiles returns an error, and handleIngestFileInput with it
SubFilesFail(e) == subFileResult' = Err(e) /\ Return(Err(e))

\* As StartSubFiles, the loop entered whatever the range check says.
StartSubFiles_IgnoreRangeError ==
    /\ pc = "subFiles"
    /\ LET subFiles == rawFile.settings.subFiles IN
       IF IsAbsent(subFiles) \/ Len(subFiles.items) <= 0
       THEN /\ subFileResult' = Ok(<<>>)
            /\ pc' = "connect"
            /\ UNCHANGED <<rangeCheckError, idx, ret>>
       ELSE /\ rangeCheckError' = checkIDRangesOfSubFiles(subFiles.items)
            /\ idx' = 1 /\ pc' = "subDeclaration"
            /\ UNCHANGED <<subFileResult, ret>>
    /\ UNCHANGED <<rawFile0, rawFile, verification, verifyVars, imageVars, url, subFile,
                   verifiedSubFiles, reads, assetIdx, uploads>>

\* handleSubFiles up to its loop
StartSubFiles ==
    /\ pc = "subFiles"
    /\ LET subFiles == rawFile.settings.subFiles IN
       IF IsAbsent(subFiles) \/ Len(subFiles.items) <= 0
       THEN /\ subFileResult' = Ok(<<>>)
            /\ pc' = "connect"
            /\ UNCHANGED <<rangeCheckError, idx, ret>>
       ELSE \E e \in {checkIDRangesOfSubFiles(subFiles.items)} :
                /\ rangeCheckError' = e
                /\ IF e # Null
                   THEN SubFilesFail(e) /\ UNCHANGED idx
                   ELSE idx' = 1 /\ pc' = "subDeclaration" /\ UNCHANGED <<subFileResult, ret>>
    /\ UNCHANGED <<rawFile0, rawFile, verification, verifyVars, imageVars, url, subFile,
                   verifiedSubFiles, reads, assetIdx, uploads>>

\* The loop of handleSubFiles takes the next declaration and type-checks it
\* (the verdict of conformsToType against INGEST_FILE_SETTINGS_TYPEDECL)
CheckDeclaration ==
    /\ pc = "subDeclaration"
    /\ idx <= Len(rawFile.settings.subFiles.items)
    /\ \E typeCheck \in {Null, [kind |-> "IngestFileSettings type mismatch"]} :
           IF typeCheck # Null
           THEN SubFilesFail([kind |-> "Type error in sub-file declaration: ",
                              cause |-> typeCheck])
           ELSE pc' = "subRead" /\ UNCHANGED <<subFileResult, ret>>
    /\ UNCHANGED <<rawFile0, rawFile, verification, verifyVars, imageVars, url, rangeCheckError,
                   idx, subFile, verifiedSubFiles, reads, assetIdx, uploads>>

\* await readIngestFile(subFileDeclaration.path)
ReadSubFile ==
    /\ pc = "subRead"
    /\ \E file \in SubFileFiles :
           \E r \in {readIngestFile(rawFile.settings.subFiles.items[idx].path, file)} :
              /\ reads' = Append(reads, [url |-> rawFile.settings.subFiles.items[idx].path,
                                         returned |-> r])
              /\ IF r.error # Null
                 THEN SubFilesFail(r.error) /\ UNCHANGED subFile
                 ELSE /\ subFile' = r.result
                      /\ pc' = "subVerify" /\ UNCHANGED <<subFileResult, ret>>
    /\ UNCHANGED <<rawFile0, rawFile, verification, verifyVars, imageVars, url, rangeCheckError,
                   idx, verifiedSubFiles, assetIdx, uploads>>

\* As VerifySubFile, the document pushed whatever the id check says.
VerifySubFile_IgnoreIdError ==
    /\ pc = "subVerify"
    /\ \E verify \in {verifyIngestFileAssets(subFile)} :
          /\ subFile' = verify.rawFile
          /\ IF verify.error # Null
             THEN SubFilesFail(verify.error) /\ UNCHANGED <<idx, verifiedSubFiles>>
             ELSE /\ verifiedSubFiles' = Append(verifiedSubFiles, verify.rawFile)
                  /\ idx' = idx + 1
                  /\ pc' = "subDeclaration"
                  /\ UNCHANGED <<subFileResult, ret>>
    /\ UNCHANGED <<rawFile0, rawFile, verification, verifyVars, imageVars, url, rangeCheckError,
                   reads, assetIdx, uploads>>

\* As VerifySubFile, a document that fails a check left out and the loop
\* going on with the next declaration.
VerifySubFile_SkipInvalid ==
    /\ pc = "subVerify"
    /\ \E verify \in {verifyIngestFileAssets(subFile)} :
          /\ subFile' = verify.rawFile
          /\ IF verify.error # Null
             THEN UNCHANGED verifiedSubFiles
             ELSE \E idCheckError \in
                      {verifySubFileIDAssignments(rawFile.settings.subFiles.items[idx],
                                                  verify.rawFile)} :
                      IF idCheckError # Null
                      THEN UNCHANGED verifiedSubFiles
                      ELSE verifiedSubFiles' = Append(verifiedSubFiles, verify.rawFile)
          /\ idx' = idx + 1
          /\ pc' = "subDeclaration"
          /\ UNCHANGED <<subFileResult, ret>>
    /\ UNCHANGED <<rawFile0, rawFile, verification, verifyVars, imageVars, url, rangeCheckError,
                   reads, assetIdx, uploads>>

\* The rest of the turn: the assets and the ids of the document are checked
\* and the document is pushed
VerifySubFile ==
    /\ pc = "subVerify"
    /\ \E verify \in {verifyIngestFileAssets(subFile)} :
          /\ subFile' = verify.rawFile
          /\ IF verify.error # Null
             THEN SubFilesFail(verify.error) /\ UNCHANGED <<idx, verifiedSubFiles>>
             ELSE \E idCheckError \in
                      {verifySubFileIDAssignments(rawFile.settings.subFiles.items[idx],
                                                  verify.rawFile)} :
                      IF idCheckError # Null
                      THEN SubFilesFail(idCheckError) /\ UNCHANGED <<idx, verifiedSubFiles>>
                      ELSE /\ verifiedSubFiles' = Append(verifiedSubFiles, verify.rawFile)
                           /\ idx' = idx + 1
                           /\ pc' = "subDeclaration"
                           /\ UNCHANGED <<subFileResult, ret>>
    /\ UNCHANGED <<rawFile0, rawFile, verification, verifyVars, imageVars, url, rangeCheckError,
                   reads, assetIdx, uploads>>

\* The loop of handleSubFiles is through: it returns the documents pushed
FinishSubFiles ==
    /\ pc = "subDeclaration"
    /\ idx > Len(rawFile.settings.subFiles.items)
    /\ subFileResult' = Ok(verifiedSubFiles)
    /\ pc' = "connect"
    /\ UNCHANGED <<rawFile0, rawFile, verification, verifyVars, imageVars, url, rangeCheckError,
                   idx, subFile, verifiedSubFiles, reads, assetIdx, uploads, ret>>

\* processIngestFile: await context.db.connect(ingestScript.settings.dsn)
ConnectDB ==
    /\ pc = "connect"
    /\ \E dbErr \in {Null, [kind |-> "Database connection failed"]} :
           /\ uploads' = Append(uploads, [call |-> "connect", with |-> rawFile.settings.dsn])
           /\ IF dbErr # Null
              THEN Return(Err(dbErr)) /\ UNCHANGED assetIdx
              ELSE assetIdx' = 1 /\ pc' = "upload" /\ UNCHANGED ret
    /\ UNCHANGED <<rawFile0, rawFile, verification, verifyVars, imageVars, url, rangeCheckError,
                   idx, subFile, verifiedSubFiles, subFileResult, reads>>

\* One turn of the loop of processIngestFile
UploadAsset ==
    /\ pc = "upload"
    /\ assetIdx <= Len(rawFile.assets.items)
    /\ LET asset == rawFile.assets.items[assetIdx] IN
       IF asset.type = Str("collection")
       THEN \E resError \in {Null, [kind |-> "Establishing the collection failed"]} :
                /\ uploads' = Append(uploads, [call |-> "establishCollection",
                                               with |-> asset.entries])
                /\ IF resError # Null
                   THEN Return(Err(resError)) /\ UNCHANGED assetIdx
                   ELSE assetIdx' = assetIdx + 1 /\ UNCHANGED <<pc, ret>>
       ELSE assetIdx' = assetIdx + 1 /\ UNCHANGED <<pc, ret, uploads>>
    /\ UNCHANGED <<rawFile0, rawFile, verification, verifyVars, imageVars, url, rangeCheckError,
                   idx, subFile, verifiedSubFiles, subFileResult, reads>>

FinishUpload ==
    /\ pc = "upload"
    /\ assetIdx > Len(rawFile.assets.items)
    /\ Return(Ok(Str("Ingest file succesfully processed and uploaded")))
    /\ UNCHANGED <<rawFile0, rawFile, verification, verifyVars, imageVars, url, rangeCheckError,
                   idx, subFile, verifiedSubFiles, subFileResult, reads, assetIdx, uploads>>

Next ==
    \/ ParseArgs \/ ReadRoot \/ VerifyRoot
    \/ StartSubFiles \/ CheckDeclaration \/ ReadSubFile \/ VerifySubFile \/ FinishSubFiles
    \/ ConnectDB \/ UploadAsset \/ FinishUpload

Spec == Init /\ [][Next]_vars

---------------------------------------------------------------------------
(* Properties of a run (checked under Spec)                                *)

\* The declarations of the run, once the root document is verified
Declared ==
    IF rawFile = None \/ IsAbsent(rawFile.settings) \/ IsAbsent(rawFile.settings.subFiles)
    THEN <<>>
    ELSE rawFile.settings.subFiles.items

\* Some declaration is malformed, or two declarations overlap
RangesClash(d) ==
    \/ \E i \in 1..Len(d) : d[i].start > d[i].end
    \/ \E i, j \in 1..Len(d) : i # j /\ Overlap(d[i], d[j])

OrdersOf(d) ==
    {[i \in 1..Len(d) |-> d[p[i]]] :
         p \in {q \in [1..Len(d) -> 1..Len(d)] :
                    \A i, j \in 1..Len(d) : i # j => q[i] # q[j]}}

\* C3: on a non-empty list of declarations, when a declaration has
\* start > end or two declarations overlap, the range check returns an error
\* (one of overlap names two declarations of the list that overlap) and
\* handleSubFiles returns it; when the ranges are well-formed and disjoint
\* it returns null; and whether it returns null is the same for every
\* permutation of the list.
C3_RangeCheck ==
    rangeCheckError # None
    => /\ RangesClash(Declared)
          => /\ rangeCheckError # Null
             /\ subFileResult = Err(rangeCheckError)
             /\ rangeCheckError.kind = "Overlapping id ranges in sub-files: "
                => \E i, j \in 1..Len(Declared) :
                       /\ i # j
                       /\ Declared[i] = rangeCheckError.current
                       /\ Declared[j] = rangeCheckError.next
                       /\ Overlap(Declared[i], Declared[j])
       /\ ~RangesClash(Declared) => rangeCheckError = Null
       /\ \A q \in OrdersOf(Declared) :
              (checkIDRangesOfSubFiles(q) = Null) <=> (rangeCheckError = Null)

C3_Witness ==
    /\ pc = "done"
    /\ Len(Declared) = 2
    /\ Declared[1].start > Declared[2].start
    /\ Declared[2].end >= Declared[1].start /\ Declared[1].end >= Declared[1].start
    /\ rangeCheckError # None /\ rangeCheckError # Null
    /\ rangeCheckError.kind = "Overlapping id ranges in sub-files: "
    /\ subFileResult = Err(rangeCheckError)

\* The ids of the assets of a document
IdsOf(f) == {f.assets.items[i].id : i \in 1..Len(f.assets.items)}

InRange(id, d) == d.start <= id /\ id <= d.end

IdOutside == "Asset id outside the id range of sub-file: "

\* C4: a document with an asset id outside the range of its declaration is
\* refused, with an error naming such an id, and is not pushed; a document
\* whose ids are all in the range passes the id check.
C4_IdAssignments ==
    /\ \A k \in 1..Len(verifiedSubFiles) :
           \A id \in IdsOf(verifiedSubFiles[k]) : InRange(id, Declared[k])
    /\ (pc = "subVerify" /\ verifyIngestFileAssets(subFile).error = Null)
       => LET e == verifySubFileIDAssignments(Declared[idx], subFile) IN
          /\ (e = Null) <=> \A id \in IdsOf(subFile) : InRange(id, Declared[idx])
          /\ e # Null => e.id \in IdsOf(subFile) /\ ~InRange(e.id, Declared[idx])
    /\ (subFileResult # None /\ subFileResult.error # Null
        /\ subFileResult.error.kind = IdOutside)
       => /\ subFileResult.result = Null
          /\ subFileResult.error.id \in IdsOf(subFile)
          /\ ~InRange(subFileResult.error.id, Declared[idx])
          /\ Len(verifiedSubFiles) = idx - 1
          /\ ret = Err(subFileResult.error)

C4_Witness ==
    /\ pc = "done"
    /\ subFileResult # None /\ subFileResult.error # Null
    /\ subFileResult.error.kind = IdOutside
    /\ idx = 2 /\ Len(verifiedSubFiles) = 1
    /\ \E id \in IdsOf(subFile) : InRange(id, Declared[2])

\* What the turn for declaration d makes of what readIngestFile returned:
\* the error it ends the run with, or Null
TurnError(d, returned) ==
    IF returned.error # Null THEN returned.error
    ELSE IF verifyIngestFileAssets(returned.result).error # Null
    THEN verifyIngestFileAssets(returned.result).error
    ELSE verifySubFileIDAssignments(d, returned.result)

\* C5: the sub-files are read one at a time in the order declared, each
\* only when every earlier one passed; the first turn that fails ends the
\* run with its error and a null result; a run of handleSubFiles without
\* failure returns one document per declaration, in the order declared.
C5_SequentialFailFast ==
    /\ Len(reads) <= Len(Declared)
    /\ \A k \in 1..Len(reads) : reads[k].url = Declared[k].path
    /\ Len(verifiedSubFiles) <= Len(reads) /\ Len(reads) <= Len(verifiedSubFiles) + 1
    /\ \A k \in 1..Len(verifiedSubFiles) :
           /\ TurnError(Declared[k], reads[k].returned) = Null
           /\ verifiedSubFiles[k] = reads[k].returned.result
    /\ (subFileResult # None /\ subFileResult.error # Null)
       => /\ subFileResult.result = Null
          /\ pc = "done" /\ ret = Err(subFileResult.error)
          /\ rangeCheckError = Null
             => /\ idx = Len(verifiedSubFiles) + 1
                /\ \/ /\ Len(reads) = idx - 1
                      /\ subFileResult.error.kind = "Type error in sub-file declaration: "
                   \/ /\ Len(reads) = idx
                      /\ subFileResult.error = TurnError(Declared[idx], reads[idx].returned)
    /\ (subFileResult # None /\ subFileResult.error = Null)
       => /\ subFileResult.result = verifiedSubFiles
          /\ Len(subFileResult.result) = Len(Declared)
          /\ Len(reads) = Len(Declared)

C5_Witness ==
    /\ pc = "done"
    /\ Len(Declared) = 2
    /\ Len(reads) = 1 /\ verifiedSubFiles = <<>>
    /\ reads[1].returned.error = Null
    /\ subFileResult = Err(TurnError(Declared[1], reads[1].returned))

\* C6: context.db is called only in a run whose root document is verified
\* and whose handleSubFiles returned without error (the ranges passed the
\* check and every declared sub-file is read and verified); a run that
\* fails before that returns the error and calls nothing on context.db.
C6_UploadAfterVerification ==
    /\ (uploads # <<>> \/ pc \in {"connect", "upload"})
       => /\ verification # None /\ verification.error = Null
          /\ subFileResult # None /\ subFileResult.error = Null
          /\ Len(subFileResult.result) = Len(Declared)
          /\ Declared # <<>>
             => /\ rangeCheckError = Null
                /\ ~RangesClash(Declared)
                /\ \A k \in 1..Len(Declared) :
                       /\ reads[k].returned.error = Null
                       /\ verifyIngestFileAssets(subFileResult.result[k]).error = Null
                       /\ \A id \in IdsOf(subFileResult.result[k]) : InRange(id, Declared[k])
    /\ (pc = "done" /\ verification # None /\ verification.error # Null)
       => uploads = <<>> /\ ret = Err(verification.error)
    /\ (pc = "done" /\ subFileResult # None /\ subFileResult.error # Null)
       => uploads = <<>> /\ ret = Err(subFileResult.error)
    /\ (pc = "done" /\ verification = None)
       => uploads = <<>> /\ ret.result = Null /\ ret.error # Null

C6_Witness ==
    /\ pc = "done"
    /\ Len(Declared) = 2
    /\ Len(uploads) = 2
    /\ ret.error = Null

\* The paths an error message contains: the url readIngestFile puts into
\* its "does not exist" message, and no other
PathsNamedBy(e) == IF "url" \in DOMAIN e THEN {e.url} ELSE {}

\* The read of the declaration in turn failed and ended handleSubFiles
ReadFailed ==
    /\ pc = "done"
    /\ reads # <<>>
    /\ reads[Len(reads)].returned.error # Null

\* C11: when the read of a declared sub-file fails (the file is missing or
\* does not parse), the error handleSubFiles returns contains the path of
\* that declaration.
C11_ReadErrorNamesPath ==
    ReadFailed
    => /\ subFileResult = Err(reads[Len(reads)].returned.error)
       /\ Declared[idx].path \in PathsNamedBy(subFileResult.error)

\* C12 (checked under SpecVerify): after a call of assureUniformDSN the
\* value passed in is as it was before the call.
C12_NormalizerLeavesArgument ==
    dsnFirst # None => dsnFirst.dsn = dsn

\* C13: with a non-empty settings.subFiles the range check runs before any
\* sub-file is read: a read happens only after the check returned null; when
\* the check returns an error, handleSubFiles returns that error with a null
\* result and no sub-file has been read.
C13_RangeCheckBeforeReads ==
    /\ reads # <<>> => rangeCheckError = Null
    /\ (Declared # <<>> /\ pc \in {"subDeclaration", "subRead", "subVerify"})
       => rangeCheckError = Null
    /\ (rangeCheckError # None /\ rangeCheckError # Null)
       => /\ reads = <<>>
          /\ verifiedSubFiles = <<>>
          /\ subFileResult = Err(rangeCheckError)
          /\ subFileResult.result = Null
          /\ pc = "done"

C13_Witness ==
    /\ pc = "done"
    /\ Len(Declared) = 2
    /\ rangeCheckError # None /\ rangeCheckError # Null
    /\ rangeCheckError.kind = "Malformed id range in sub-file: "
    /\ rangeCheckError.declaration = Declared[2]
    /\ reads = <<>>
    /\ ret = Err(rangeCheckError)

---------------------------------------------------------------------------
(* SpecLOD: a call of generateLODs.  A blob is its size in bytes and its   *)
(* type; what sharp makes of it is the environment's choice.               *)
MaxSizeUnits == 4
MaxThreshold == 2

\* blob.size / 1000 is compared with sizeThreshold; here size is compared
\* with sizeThreshold * BytesPerKB, which is the same comparison
BytesPerKB == 1000

\* Sizes in steps of half a kilobyte, so that size / 1000 can equal a threshold
Sizes == {k * (BytesPerKB \div 2) : k \in 0..MaxSizeUnits}

Thresholds == 0..MaxThreshold

\* The loop of generateLODs has no bound of its own; the model follows it
\* for as many turns as a strictly shrinking blob can take
MaxLevel == MaxSizeUnits

\* ImageMIMEType.SVG
SVG == Str("image/svg+xml")

MIMETypes == {Str("image/png"), SVG}

BlobTypes == {Str("")} \cup MIMETypes

Blobs == [size : Sizes, type : BlobTypes]

\* An element of the list: {detailLevel, blob, type}
LOD(level, b, type) == [detailLevel |-> level, blob |-> b, type |-> type]

\* What findConformingMIMEType can return for blob.type
ConformingMIMETypes ==
    {Err([kind |-> "No conforming MIME type"])} \cup {Ok(m) : m \in MIMETypes}

\* What downscaleImage can return for b: the message of what sharp threw,
\* the error of formatInstanceToType, or a blob of b's type and of any size
downscaleImage(b) ==
    {Err([kind |-> "sharp error"]),
     Err([kind |-> "Unsupported image type: ", type |-> "metadata.format"])}
    \cup {Ok([size |-> n, type |-> b.type]) : n \in Sizes}

InitLOD ==
    /\ pc = "lod"
    /\ blob \in Blobs
    /\ sizeThreshold \in Thresholds
    /\ typeOverwrite \in {Undef} \cup MIMETypes
    /\ shrinks \in BOOLEAN
    /\ blobType = None /\ lodsGenerated = <<>> /\ currentBlob = None
    /\ detailLevel = 0 /\ downscales = <<>> /\ lodRet = None
    /\ fetchUrl = None /\ response = None /\ consulted = <<>> /\ fetchRet = None
    /\ dsn = None /\ dsnFirst = None /\ dsnSecond = None /\ reverification = None
    /\ rawFile0 = None /\ rawFile = None /\ verification = None
    /\ NoRun

LodReturn(r) == lodRet' = r /\ pc' = "lodDone"

\* generateLODs up to its loop
EnterGenerateLODs ==
    /\ pc = "lod"
    /\ \E found \in ConformingMIMETypes, supported \in BOOLEAN :
         \E resolved \in {IF typeOverwrite # Undef THEN Ok(typeOverwrite) ELSE found} :
           IF resolved.error # Null
           THEN /\ LodReturn(Err(resolved.error))
                /\ UNCHANGED <<blobType, lodsGenerated, currentBlob, detailLevel>>
           ELSE /\ blobType' = resolved.result
                /\ IF ~supported
                   THEN /\ LodReturn(Err([kind |-> "Unsupported image type: ",
                                          type |-> blob.type]))
                        /\ UNCHANGED <<lodsGenerated, currentBlob, detailLevel>>
                   ELSE IF blob.size = 0
                   THEN /\ LodReturn(Err([kind |-> "This blob is empty."]))
                        /\ UNCHANGED <<lodsGenerated, currentBlob, detailLevel>>
                   ELSE IF resolved.result = SVG
                   THEN /\ LodReturn(Ok(ArrayOf(<<LOD(0, blob, resolved.result)>>)))
                        /\ UNCHANGED <<lodsGenerated, currentBlob, detailLevel>>
                   ELSE /\ lodsGenerated' = <<LOD(0, blob, resolved.result)>>
                        /\ IF blob.size < sizeThreshold * BytesPerKB
                           THEN /\ LodReturn(Ok(ArrayOf(<<LOD(0, blob, resolved.result)>>)))
                                /\ UNCHANGED <<currentBlob, detailLevel>>
                           ELSE /\ currentBlob' = blob
                                /\ detailLevel' = 1
                                /\ pc' = "lodLoop"
                                /\ UNCHANGED lodRet
    /\ UNCHANGED <<blob, sizeThreshold, typeOverwrite, shrinks, downscales>>
    /\ UNCHANGED <<rawFile0, rawFile, verification, verifyVars, runVars, fetchVars>>

\* As Downscale, the loop going on while size / 1000 >= sizeThreshold.
Downscale_WhileAtLeast ==
    /\ pc = "lodLoop"
    /\ currentBlob.size >= sizeThreshold * BytesPerKB
    /\ detailLevel <= MaxLevel
    /\ \E r \in downscaleImage(currentBlob) :
         /\ IF r.error # Null THEN TRUE ELSE shrinks => r.result.size < currentBlob.size
         /\ downscales' = Append(downscales, [of |-> currentBlob, returned |-> r])
         /\ IF r.error # Null
            THEN /\ LodReturn(Err(r.error))
                 /\ UNCHANGED <<lodsGenerated, currentBlob, detailLevel>>
            ELSE /\ lodsGenerated' = Append(lodsGenerated,
                                            LOD(detailLevel, r.result, blobType))
                 /\ currentBlob' = r.result
                 /\ detailLevel' = detailLevel + 1
                 /\ UNCHANGED <<pc, lodRet>>
    /\ UNCHANGED <<blob, sizeThreshold, typeOverwrite, shrinks, blobType>>
    /\ UNCHANGED <<rawFile0, rawFile, verification, verifyVars, runVars, fetchVars>>

\* A turn of the loop: while (currentBlob.size / 1000 > sizeThreshold)
Downscale ==
    /\ pc = "lodLoop"
    /\ currentBlob.size > sizeThreshold * BytesPerKB
    /\ detailLevel <= MaxLevel
    /\ \E r \in downscaleImage(currentBlob) :
         /\ IF r.error # Null THEN TRUE ELSE shrinks => r.result.size < currentBlob.size
         /\ downscales' = Append(downscales, [of |-> currentBlob, returned |-> r])
         /\ IF r.error # Null
            THEN /\ LodReturn(Err(r.error))
                 /\ UNCHANGED <<lodsGenerated, currentBlob, detailLevel>>
            ELSE /\ lodsGenerated' = Append(lodsGenerated,
                                            LOD(detailLevel, r.result, blobType))
                 /\ currentBlob' = r.result
                 /\ detailLevel' = detailLevel + 1
                 /\ UNCHANGED <<pc, lodRet>>
    /\ UNCHANGED <<blob, sizeThreshold, typeOverwrite, shrinks, blobType>>
    /\ UNCHANGED <<rawFile0, rawFile, verification, verifyVars, runVars, fetchVars>>

\* The loop ends and the list is returned
ReturnLODs ==
    /\ pc = "lodLoop"
    /\ ~(currentBlob.size > sizeThreshold * BytesPerKB)
    /\ LodReturn(Ok(ArrayOf(lodsGenerated)))
    /\ UNCHANGED <<blob, sizeThreshold, typeOverwrite, shrinks, blobType, lodsGenerated,
                   currentBlob, detailLevel, downscales>>
    /\ UNCHANGED <<rawFile0, rawFile, verification, verifyVars, runVars, fetchVars>>

NextLOD == EnterGenerateLODs \/ Downscale \/ ReturnLODs

\* Each await of generateLODs settles: sharp returns or throws
SpecLOD == InitLOD /\ [][NextLOD]_vars /\ WF_vars(NextLOD)

---------------------------------------------------------------------------
(* Properties of generateLODs (checked under SpecLOD)                      *)

\* generateLODs returned a list for a blob of a type other than SVG
LODsReturned == pc = "lodDone" /\ lodRet.error = Null /\ blobType # SVG

\* b.size / 1000 > sizeThreshold
AboveThreshold(b) == b.size > sizeThreshold * BytesPerKB

\* The list returned: the original first, each further element the
\* downscale of the one before it, levels counting from 0, and only the
\* last element at or below the threshold
LODListShape ==
    LODsReturned
    => LET l == lodRet.result.items IN
       /\ Len(l) >= 1
       /\ blob.size > 0
       /\ l[1].blob = blob
       /\ \A i \in 1..Len(l) : l[i].detailLevel = i - 1 /\ l[i].type = blobType
       /\ Len(downscales) = Len(l) - 1
       /\ \A i \in 2..Len(l) :
              downscales[i - 1] = [of |-> l[i - 1].blob, returned |-> Ok(l[i].blob)]
       /\ \A i \in 1..(Len(l) - 1) : AboveThreshold(l[i].blob)
       /\ ~AboveThreshold(l[Len(l)].blob)

\* A downscale that fails ends the call with its error and no list
DownscaleFailFast ==
    /\ pc # "lodDone" => lodRet = None
    /\ (downscales # <<>> /\ downscales[Len(downscales)].returned.error # Null)
       => /\ pc = "lodDone"
          /\ lodRet = Err(downscales[Len(downscales)].returned.error)
          /\ lodRet.result = Null

\* C14: for a non-empty blob of a supported type other than SVG, a list
\* returned by generateLODs is non-empty, starts with the original blob, has
\* detailLevel i at element i, each later element being the downscale of the
\* one before it, every element but the last above the threshold and the
\* last at or below it; a downscale that fails makes the call return that
\* error with a null result; and when every downscale gives a smaller blob
\* the call returns.
C14_LODs ==
    /\ [](LODListShape /\ DownscaleFailFast)
    /\ shrinks => <>(pc = "lodDone")

C14_Witness ==
    /\ LODsReturned
    /\ shrinks
    /\ sizeThreshold = 1
    /\ Len(lodRet.result.items) = 3
    /\ lodRet.result.items[3].blob.size = BytesPerKB
    /\ typeOverwrite = Undef

---------------------------------------------------------------------------
(* SpecFetch: a call of fetchBlobOverHTTP.  The response is the            *)
(* environment's: whether fetch rejects, the status, the headers, the blob *)
(* and whether reading the blob rejects.                                    *)
MaxUrlParts == 2

contentTypeHeaderNames ==
    <<"content-type", "Content-Type", "Content-type", "Content-Type",
      "content-Type", "CONTENT-TYPE", "ContentType", "contentType">>

\* Headers keeps names in lower case, and has / get lower the name asked for
Lower(name) ==
    IF name \in {"ContentType", "contentType"} THEN "contenttype" ELSE "content-type"

HeaderNames == {Lower(contentTypeHeaderNames[i]) : i \in 1..Len(contentTypeHeaderNames)}

HeaderValues == {Str(""), Str("image/png"), Str("text/html")}

\* A header is absent (Undef) or has a value
Headers == [HeaderNames -> {Undef} \cup HeaderValues]

has(headers, name) == headers[Lower(name)] # Undef

get(headers, name) == headers[Lower(name)]

\* As getTypeFromResponseHeaders, the last header of the list that is
\* present taken instead of the first.
getTypeFromResponseHeaders_LastMatch(resp) ==
    LET matching == {i \in 1..Len(contentTypeHeaderNames) :
                         has(resp.headers, contentTypeHeaderNames[i])}
        discoveredContentType ==
            IF matching = {} THEN Str("")
            ELSE get(resp.headers,
                     contentTypeHeaderNames[CHOOSE i \in matching :
                                                \A j \in matching : j <= i])
    IN IF discoveredContentType = Str("")
       THEN Err([kind |-> "Could not determine content type from headers"])
       ELSE Ok(discoveredContentType)

getTypeFromResponseHeaders(resp) ==
    LET matching == {i \in 1..Len(contentTypeHeaderNames) :
                         has(resp.headers, contentTypeHeaderNames[i])}
        discoveredContentType ==
            IF matching = {} THEN Str("")
            ELSE get(resp.headers,
                     contentTypeHeaderNames[CHOOSE i \in matching :
                                                \A j \in matching : i <= j])
    IN IF discoveredContentType = Str("")
       THEN Err([kind |-> "Could not determine content type from headers"])
       ELSE Ok(discoveredContentType)

\* A url is the parts between its dots; url.split('.').pop() is the last
Extensions == {"jpeg", "jpg", "png", "gif", "bmp", "svg", "txt", "png?v=1"}

Urls == {<<"http://host/image">>}
        \cup {<<"http://host/image">> \o e : e \in SeqsUpTo(Extensions, 1, MaxUrlParts - 1)}

getTypeFromURL(u) ==
    LET extension == u[Len(u)] IN
    IF extension \in {"jpeg", "jpg"} THEN Ok(Str("image/jpeg"))
    ELSE IF extension = "png" THEN Ok(Str("image/png"))
    ELSE IF extension = "gif" THEN Ok(Str("image/gif"))
    ELSE IF extension = "bmp" THEN Ok(Str("image/bmp"))
    ELSE IF extension = "svg" THEN Ok(Str("image/svg+xml"))
    ELSE Err([kind |-> "Could not determine content type from url"])

Responses ==
    [rejects : BOOLEAN, ok : BOOLEAN, headers : Headers,
     blob : [size : {0, BytesPerKB}, type : {Str(""), Str("image/gif")}],
     blobRejects : BOOLEAN]

InitFetch ==
    /\ pc = "fetch"
    /\ fetchUrl \in Urls
    /\ response \in Responses
    /\ consulted = <<>> /\ fetchRet = None
    /\ blob = None /\ sizeThreshold = 0 /\ typeOverwrite = None /\ shrinks = FALSE
    /\ blobType = None /\ lodsGenerated = <<>> /\ currentBlob = None
    /\ detailLevel = 0 /\ downscales = <<>> /\ lodRet = None
    /\ dsn = None /\ dsnFirst = None /\ dsnSecond = None /\ reverification = None
    /\ rawFile0 = None /\ rawFile = None /\ verification = None
    /\ NoRun

FetchReturn(r) == fetchRet' = r /\ pc' = "fetchDone"

\* await fetch(url), and the check of response.ok
Fetch ==
    /\ pc = "fetch"
    /\ IF response.rejects
       THEN FetchReturn(Err([kind |-> "message of what fetch threw"]))
       ELSE IF ~response.ok
       THEN FetchReturn(Err([kind |-> "HTTP error! status: "]))
       ELSE pc' = "fetchBlob" /\ UNCHANGED fetchRet
    /\ UNCHANGED <<fetchUrl, response, consulted>>
    /\ UNCHANGED <<rawFile0, rawFile, verification, verifyVars, runVars, lodVars>>

\* findConformingMIMEType(discoveredType) and the blob of the type it gives;
\* log is what was consulted to discover the type
Conform(log, discoveredType) ==
    \E found \in ConformingMIMETypes :
        /\ consulted' = Append(log, [source |-> "findConformingMIMEType",
                                     asked |-> discoveredType, returned |-> found])
        /\ IF found.error # Null
           THEN FetchReturn(Err(found.error))
           ELSE FetchReturn(Ok([response.blob EXCEPT !.type = found.result]))

\* await response.blob(), and the type of an untyped blob
ResolveBlobType ==
    /\ pc = "fetchBlob"
    /\ IF response.blobRejects
       THEN /\ FetchReturn(Err([kind |-> "message of what response.blob() threw"]))
            /\ UNCHANGED consulted
       ELSE IF response.blob.type # Str("")
       THEN FetchReturn(Ok(response.blob)) /\ UNCHANGED consulted
       ELSE \E typeAttemptHeaders \in {getTypeFromResponseHeaders(response)} :
              IF typeAttemptHeaders.error = Null
              THEN Conform(<<[source |-> "headers", returned |-> typeAttemptHeaders]>>,
                           typeAttemptHeaders.result)
              ELSE \E typeAttemptURL \in {getTypeFromURL(fetchUrl)} :
                     IF typeAttemptURL.error = Null
                     THEN Conform(<<[source |-> "headers", returned |-> typeAttemptHeaders],
                                    [source |-> "url", returned |-> typeAttemptURL]>>,
                                  typeAttemptURL.result)
                     ELSE /\ FetchReturn(Err([kind |-> "Could not determine content type: ",
                                              cause |-> typeAttemptURL.error]))
                          /\ consulted' =
                                 <<[source |-> "headers", returned |-> typeAttemptHeaders],
                                   [source |-> "url", returned |-> typeAttemptURL]>>
    /\ UNCHANGED <<fetchUrl, response>>
    /\ UNCHANGED <<rawFile0, rawFile, verification, verifyVars, runVars, lodVars>>

NextFetch == Fetch \/ ResolveBlobType

SpecFetch == InitFetch /\ [][NextFetch]_vars

---------------------------------------------------------------------------
(* Properties of fetchBlobOverHTTP (checked under SpecFetch)               *)

\* The blob of an OK response was read
BlobRead == ~response.rejects /\ response.ok /\ ~response.blobRejects

\* Some header of contentTypeHeaderNames is in the response
HeaderPresent ==
    \E i \in 1..Len(contentTypeHeaderNames) : has(response.headers, contentTypeHeaderNames[i])

\* The value of the first header of contentTypeHeaderNames in the response
FirstHeader ==
    LET i == CHOOSE i \in 1..Len(contentTypeHeaderNames) :
                 /\ has(response.headers, contentTypeHeaderNames[i])
                 /\ \A j \in 1..(i - 1) : ~has(response.headers, contentTypeHeaderNames[j])
    IN get(response.headers, contentTypeHeaderNames[i])

UrlConsulted == \E i \in 1..Len(consulted) : consulted[i].source = "url"

\* The precedence of the sources of a type, the url being turned to exactly
\* when urlTurn holds
TypePrecedence(urlTurn) ==
    pc = "fetchDone"
    => /\ ~BlobRead
          => fetchRet.error # Null /\ fetchRet.result = Null /\ consulted = <<>>
       /\ (BlobRead /\ response.blob.type # Str(""))
          => fetchRet = Ok(response.blob) /\ consulted = <<>>
       /\ (BlobRead /\ response.blob.type = Str(""))
          => /\ consulted # <<>> /\ consulted[1].source = "headers"
             /\ UrlConsulted <=> urlTurn
             /\ LET discovered == IF UrlConsulted THEN getTypeFromURL(fetchUrl)
                                  ELSE Ok(FirstHeader)
                    last == consulted[Len(consulted)]
                IN IF discovered.error # Null
                   THEN /\ last.source = "url"
                        /\ fetchRet.error # Null /\ fetchRet.result = Null
                   ELSE /\ last.source = "findConformingMIMEType"
                        /\ last.asked = discovered.result
                        /\ IF last.returned.error # Null
                           THEN fetchRet = Err(last.returned.error)
                           ELSE fetchRet = Ok([response.blob EXCEPT
                                                   !.type = last.returned.result])
       /\ fetchRet.error = Null
          => /\ fetchRet.result.type # Str("")
             /\ fetchRet.result.size = response.blob.size

\* C15 as stated: a blob with a type is returned as it is; for a blob
\* without one the first header of the list that is present gives the type,
\* and the url's extension is turned to only when none is present; no type,
\* or no conforming MIME type, gives an error and a null result; a blob
\* returned has a type; a response that is not OK gives an error.
C15_UrlOnlyWithoutHeader == TypePrecedence(~HeaderPresent)

\* C15, amended: as above, but the url's extension is turned to when no
\* header of the list is present or the first one present has an empty
\* value (headers later in the list are then not looked at).
C15_TypePrecedence == TypePrecedence(~HeaderPresent \/ FirstHeader = Str(""))

C15_Witness ==
    /\ pc = "fetchDone"
    /\ BlobRead /\ response.blob.type = Str("")
    /\ response.headers["content-type"] = Str("")
    /\ response.headers["contenttype"] = Str("image/png")
    /\ UrlConsulted
    /\ fetchRet.error = Null
    /\ fetchRet.result.type = Str("image/png")

====
